---- MODULE Spec2Model ----
(***************************************************************************)
(* Model of the pursuit-alert scanner: src/index.py (main and its helpers) *)
(* and src/gemini.py (the cached, retrying oracle call ask_gemini).        *)
(*                                                                         *)
(* Text is a sequence of one-character strings, so that strip, split and   *)
(* upper-casing are computed as Python computes them.                      *)
(***************************************************************************)
EXTENDS Naturals, Integers, Sequences, FiniteSets, TLC

VARIABLES
    pc,        \* position of the program (main of index.py, or a harness)
    run,       \* number of invocations of the program started so far
    env,       \* process environment of this invocation: GEMINI_API_KEY / DISCORD_WEBHOOK set
    idx,       \* index into the URL list of the per-URL loop
    cur,       \* locals of the current loop iteration (result, title, live_link, last, ...)
    file,      \* last_chase.json on disk
    cache,     \* geminicache/ on disk: cache key -> entry
    ask,       \* arguments of the ask_gemini call of the harness
    askOut,    \* outcome of the last ask_gemini call
    page,      \* input of the page-scanner harness
    hist       \* history (ghost) record: what was stored, scanned, alerted, saved

vars == <<pc, run, env, idx, cur, file, cache, ask, askOut, page, hist>>

None == [kind |-> "None"]

(***************************************************************************)
(* Python str helpers                                                      *)
(***************************************************************************)
WS == {" ", "\n", "\t"}

min(a, b) == IF a <= b THEN a ELSE b

max(a, b) == IF a >= b THEN a ELSE b

\* the first and the last position of s that holds no whitespace (s has one)
firstInk(s) == CHOOSE i \in 1..Len(s) : s[i] \notin WS /\ \A j \in 1..(i - 1) : s[j] \in WS

lastInk(s) == CHOOSE i \in 1..Len(s) : s[i] \notin WS /\ \A j \in (i + 1)..Len(s) : s[j] \in WS

lstrip(s) == IF \A i \in 1..Len(s) : s[i] \in WS THEN <<>> ELSE SubSeq(s, firstInk(s), Len(s))

rstrip(s) == IF \A i \in 1..Len(s) : s[i] \in WS THEN <<>> ELSE SubSeq(s, 1, lastInk(s))

strip(s) == rstrip(lstrip(s))

\* str.split() with no argument: split on runs of whitespace, no empty pieces
RECURSIVE splitFrom(_, _, _)
splitFrom(s, word, acc) == IF s = <<>> THEN (IF word = <<>> THEN acc ELSE Append(acc, word)) ELSE IF Head(s) \in WS THEN splitFrom(Tail(s), <<>>, IF word = <<>> THEN acc ELSE Append(acc, word)) ELSE splitFrom(Tail(s), Append(word, Head(s)), acc)

split(s) == splitFrom(s, <<>>, <<>>)

LowerOf == [c \in {"A","C","E","F","G","H","I","L","N","O","P","R","S","T","U","V","W","Y"} |-> CASE c = "A" -> "a" [] c = "C" -> "c" [] c = "E" -> "e" [] c = "F" -> "f" [] c = "G" -> "g" [] c = "H" -> "h" [] c = "I" -> "i" [] c = "L" -> "l" [] c = "N" -> "n" [] c = "O" -> "o" [] c = "P" -> "p" [] c = "R" -> "r" [] c = "S" -> "s" [] c = "T" -> "t" [] c = "U" -> "u" [] c = "V" -> "v" [] c = "W" -> "w" [] c = "Y" -> "y"]

lowerChar(c) == IF c \in DOMAIN LowerOf THEN LowerOf[c] ELSE c

upperChar(c) == IF \E u \in DOMAIN LowerOf : LowerOf[u] = c THEN CHOOSE u \in DOMAIN LowerOf : LowerOf[u] = c ELSE c

upper(s) == [i \in 1..Len(s) |-> upperChar(s[i])]

\* "\n".join(parts)
RECURSIVE join(_, _)
join(sep, parts) == IF parts = <<>> THEN <<>> ELSE IF Len(parts) = 1 THEN parts[1] ELSE parts[1] \o sep \o join(sep, Tail(parts))

(***************************************************************************)
(* Bounds of the model                                                     *)
(***************************************************************************)
\* invocations of the program that are followed
MaxRuns == 2

\* largest max_retries the ask_gemini harness passes
MaxRetriesArg == 3

\* URLs of the configured list that are kept
NumUrls == 2

\* most elements of a page of the scanner harness
MaxElems == 2

(***************************************************************************)
(* Text literals                                                           *)
(***************************************************************************)
T_YES == <<"Y","E","S">>

T_NO == <<"N","O">>

T_yes_sp == <<" ","y","e","s"," ">>

T_YESdot == <<"Y","E","S",".">>

T_blank == <<" ","\n">>

(***************************************************************************)
(* gemini.py: the REST call                                                *)
(***************************************************************************)
\* What the generateContent endpoint can produce for one request: a failure
\* (curl exits non-zero, or the body is not JSON), or the text parts of the
\* candidates.
OracleOutcomes ==
    { [kind |-> "error", parts |-> <<>>],
      [kind |-> "ok", parts |-> <<>>],
      [kind |-> "ok", parts |-> <<T_blank>>],
      [kind |-> "ok", parts |-> <<T_yes_sp, T_NO>>],
      [kind |-> "ok", parts |-> <<T_YESdot>>] }

\* the parts whose text is truthy (gemini.py:133-135)
RECURSIVE truthyParts(_)
truthyParts(parts) == IF parts = <<>> THEN <<>> ELSE IF Head(parts) /= <<>> THEN <<Head(parts)>> \o truthyParts(Tail(parts)) ELSE truthyParts(Tail(parts))

curl_unstripped(o) == IF o.kind = "error" THEN [kind |-> "raise", text |-> <<>>] ELSE [kind |-> "text", text |-> join(<<"\n">>, truthyParts(o.parts))]

_curl_generate_content(o) == IF o.kind = "error" THEN [kind |-> "raise", text |-> <<>>] ELSE [kind |-> "text", text |-> strip(join(<<"\n">>, truthyParts(o.parts)))]

(***************************************************************************)
(* gemini.py: the on-disk cache                                            *)
(***************************************************************************)
DEFAULT_MODEL == "gemini-2.5-flash"

\* max_retries default of ask_gemini
DEFAULT_MAX_RETRIES == 3

\* sha256 of the canonical JSON of the params, keys sorted: "model" before "prompt".
\* The digest is taken to be collision-free: the key is the canonical form.
_cache_key(params) == <<params.model, params.prompt>>

\* A cache file is absent (key not in DOMAIN cache), damaged (not JSON) or holds a response.
load_cache_never(c, key) == None

_load_cache(c, key) == IF key \notin DOMAIN c THEN None ELSE IF c[key].state /= "ok" THEN None ELSE [kind |-> "text", text |-> c[key].response]

\* open(path, "w") may fail (file untouched) and json.dump may fail after the
\* file was truncated (file damaged); both are swallowed.
SaveOutcomes == {"ok", "open_fails", "dump_fails"}

_save_cache(c, key, response, w) == CASE w = "ok" -> (key :> [state |-> "ok", response |-> response]) @@ c [] w = "open_fails" -> c [] w = "dump_fails" -> (key :> [state |-> "damaged", response |-> <<>>]) @@ c

(***************************************************************************)
(* gemini.py: ask_gemini. A call ends in one of the results the oracle's   *)
(* outcomes and the outcome of the cache write allow: ask_gemini is the    *)
(* set of them, each with the cache it leaves                              *)
(***************************************************************************)
NoCall == [prompt |-> None, model |-> DEFAULT_MODEL, max_retries |-> 0, stored |-> None]

\* what a call did: kind "return" or "raise", the text returned, the error
\* raised, whether the cache answered, the oracle attempts made, the sleeps
\* taken, the cache-miss messages logged, and how each attempt ended
NoOut == [kind |-> "none", text |-> <<>>, error |-> "", hit |-> FALSE, attempts |-> 0, sleeps |-> 0, logs |-> 0, trail |-> <<>>]

\* what _curl_generate_content makes of each outcome of the oracle, computed once
REPLIES == [o \in OracleOutcomes |-> _curl_generate_content(o)]

\* an end of the retry loop: what the call did, and the response it hands to
\* _save_cache with the outcome w of that write (None: nothing to save)
LoopEnd(out, response, w) == [out |-> out, response |-> response, w |-> w]

range_one_more(attempt, max_retries) == attempt <= max_retries

\* gemini.py:173: attempt is in range(max_retries)
in_range(attempt, max_retries) == attempt < max_retries

\* gemini.py:173-189: the ends of the retry loop from pass number attempt on
RECURSIVE retry_loop(_, _, _)
retry_loop(max_retries, attempt, out) ==
    IF ~in_range(attempt, max_retries)
      THEN {LoopEnd([out EXCEPT !.kind = "return", !.text = <<>>], None, "")}
      ELSE UNION { LET r == REPLIES[o]
                       made == [out EXCEPT !.attempts = @ + 1]
                   IN  IF r.kind = "text" /\ r.text /= <<>>
                         THEN { LoopEnd([made EXCEPT !.kind = "return", !.text = r.text, !.trail = Append(@, "text")], r, w)
                                  : w \in SaveOutcomes }
                       ELSE IF r.kind = "text"
                         THEN retry_loop(max_retries, attempt + 1, [made EXCEPT !.sleeps = @ + 1, !.trail = Append(@, "empty")])
                       ELSE IF attempt = max_retries - 1
                         THEN {LoopEnd([made EXCEPT !.kind = "raise", !.error = "Exception", !.trail = Append(@, "error")], None, "")}
                       ELSE retry_loop(max_retries, attempt + 1, [made EXCEPT !.sleeps = @ + 1, !.trail = Append(@, "error")])
                 : o \in OracleOutcomes }

\* the ends of the loop for every max_retries in use, computed once
RETRIES == [n \in 0..max(MaxRetriesArg, DEFAULT_MAX_RETRIES) |-> retry_loop(n, 0, [NoOut EXCEPT !.logs = 1])]

\* a result of ask_gemini: what the call did, the cache it leaves, and the
\* response it stored (None: none)
AskResult(out, c, written) == [out |-> out, cache |-> c, written |-> written]

\* gemini.py:179-181: the non-empty response is saved and returned
saved_and_returned(c, key, e) ==
    IF e.response = None THEN AskResult(e.out, c, None)
    ELSE AskResult(e.out, _save_cache(c, key, e.response.text, e.w), IF e.w = "ok" THEN e.response ELSE None)

\* gemini.py:161-189: the call once the API key is there
ask_with_key(c, key, cached, max_retries) ==
    IF cached /= None
      THEN {AskResult([NoOut EXCEPT !.kind = "return", !.text = cached.text, !.hit = TRUE], c, None)}
      ELSE {saved_and_returned(c, key, e) : e \in RETRIES[max_retries]}

\* ask_gemini(prompt, model=model, max_retries=max_retries) against the cache c,
\* GEMINI_API_KEY being set or not
ask_gemini(c, apiKey, prompt, model, max_retries) ==
    IF ~apiKey
      THEN {AskResult([NoOut EXCEPT !.kind = "raise", !.error = "ValueError"], c, None)}
      ELSE ask_with_key(c, _cache_key([prompt |-> prompt, model |-> model]),
                        _load_cache(c, _cache_key([prompt |-> prompt, model |-> model])), max_retries)

(***************************************************************************)
(* index.py: the signal table and the pattern scorer                       *)
(***************************************************************************)
NonWordChars == WS \cup {".", "!", "?", "&", "#", ";", "-", "/", "<", ">", "'", "=", ":", ","}

\* \w of the regular expressions
IsWordChar(c) == c \notin NonWordChars

\* \b at position i of s (between s[i-1] and s[i])
Boundary(s, i) ==
    LET before == i > 1 /\ IsWordChar(s[i - 1])
        after == i <= Len(s) /\ IsWordChar(s[i])
    IN  before /= after

\* A pattern is a set of alternatives; an alternative is a lower-case literal
\* in which "~" stands for \s+. All patterns are compiled with re.I and are
\* anchored by \b on both sides.
RECURSIVE matchLit(_, _, _)
matchLit(s, i, lit) ==
    IF lit = <<>> THEN i
    ELSE IF Head(lit) = "~"
      THEN IF i <= Len(s) /\ s[i] \in WS
             THEN IF i + 1 <= Len(s) /\ s[i + 1] \in WS
                    THEN matchLit(s, i + 1, lit)
                    ELSE matchLit(s, i + 1, Tail(lit))
             ELSE 0
    ELSE IF i <= Len(s) /\ lowerChar(s[i]) = Head(lit)
      THEN matchLit(s, i + 1, Tail(lit))
    ELSE 0

\* the position after a match of the alternative starting at i, or 0
matchAlt(s, i, lit) ==
    IF ~Boundary(s, i) THEN 0
    ELSE LET e == matchLit(s, i, lit)
         IN  IF e > 0 /\ Boundary(s, e) THEN e ELSE 0

matchEnd(s, i, alts) ==
    IF \E lit \in alts : matchAlt(s, i, lit) > 0
      THEN matchAlt(s, i, CHOOSE lit \in alts : matchAlt(s, i, lit) > 0)
      ELSE 0

\* len(pat.findall(text)): matches counted left to right, not overlapping
\* the first position from i on where a match starts, or 0
matchesAt(s, j, alts) == matchEnd(s, j, alts) > j

nextMatch(s, i, alts) ==
    IF \E j \in i..Len(s) : matchesAt(s, j, alts)
      THEN CHOOSE j \in i..Len(s) : matchesAt(s, j, alts) /\ \A k \in i..(j - 1) : ~matchesAt(s, k, alts)
      ELSE 0

RECURSIVE findallFrom(_, _, _)
countFrom(s, j, alts) == IF j = 0 THEN 0 ELSE 1 + findallFrom(s, matchEnd(s, j, alts), alts)

findallFrom(s, i, alts) == countFrom(s, nextMatch(s, i, alts), alts)

findall(alts, s) == findallFrom(s, 1, alts)

\* pat.search(text) is not None
search(alts, s) == \E i \in 1..Len(s) : matchEnd(s, i, alts) > 0

L_pursuit == <<"p","u","r","s","u","i","t">>

L_police_chase == <<"p","o","l","i","c","e","~","c","h","a","s","e">>

L_fleeing == <<"f","l","e","e","i","n","g">>

L_evading == <<"e","v","a","d","i","n","g">>

L_freeway == <<"f","r","e","e","w","a","y">>

L_highway == <<"h","i","g","h","w","a","y">>

L_newschopper == <<"n","e","w","s","c","h","o","p","p","e","r">>

L_news_chopper == <<"n","e","w","s","~","c","h","o","p","p","e","r">>

L_live == <<"l","i","v","e">>

L_live_pursuit == L_live \o <<"~">> \o L_pursuit

\* The rows of PATTERNS the model keeps (name, pattern, weight), in table order.
PATTERNS ==
    << [name |-> "pursuit", alts |-> {L_pursuit, L_pursuit \o <<"s">>}, weight |-> 6],
       [name |-> "police chase", alts |-> {L_police_chase, L_police_chase \o <<"s">>}, weight |-> 7],
       [name |-> "evading", alts |-> {L_fleeing, L_evading}, weight |-> 3],
       [name |-> "freeway/roads", alts |-> {L_freeway, L_highway}, weight |-> 2],
       [name |-> "news chopper", alts |-> {L_newschopper, L_news_chopper}, weight |-> 3],
       [name |-> "live pursuit", alts |-> {L_live_pursuit}, weight |-> 7] >>

MIN_SCORE_TO_LOG == 6

CORE_NAMES == {"pursuit", "police chase", "car chase", "vehicle chase", "high-speed chase", "PIT maneuver", "spike strip", "pursuit ends", "termination of pursuit", "live pursuit", "LAPD/CHP pursuit"}

CORE_PATTERNS == {PATTERNS[i].alts : i \in {j \in DOMAIN PATTERNS : PATTERNS[j].name \in CORE_NAMES}}

anyPattern(s) == \E i \in DOMAIN PATTERNS : search(PATTERNS[i].alts, s)

RECURSIVE scoreFrom(_, _)
scoreFrom(text, i) ==
    IF i > Len(PATTERNS) THEN 0
    ELSE findall(PATTERNS[i].alts, text) * PATTERNS[i].weight + scoreFrom(text, i + 1)

\* score_text_block: (score, hits)
score_text_block(text) ==
    [score |-> scoreFrom(text, 1),
     hits |-> [n \in {PATTERNS[i].name : i \in {j \in DOMAIN PATTERNS : findall(PATTERNS[j].alts, text) > 0}} |->
                  findall(PATTERNS[CHOOSE i \in DOMAIN PATTERNS : PATTERNS[i].name = n].alts, text)]]

(***************************************************************************)
(* index.py: pages, the text extractor, the snippet selector, the scanner  *)
(*                                                                         *)
(* An HTML document is a sequence of elements [tag, href, inner]: the tag  *)
(* name, the href attribute ("" when the tag has none) and the inner text  *)
(* as it stands in the markup (entities not yet unescaped).  Elements are  *)
(* not nested.                                                             *)
(***************************************************************************)
MAX_BLOCKS == 600

SNIPPET_MAX == 700

MIN_OTHER_LEN == 30

MIN_ANCHOR_LEN == 25

LIVE_BONUS == 6

STRIPPED_TAGS == {"script", "style", "noscript", "iframe", "svg", "meta", "link"}

BLOCK_TAGS == <<"h1", "h2", "h3", "h4", "h5", "h6", "p", "li">>

HEADING_TAGS == <<"h1", "h2", "h3", "h4", "h5", "h6">>

TagChars ==
    [t \in {"h1", "h4", "p", "a", "script"} |->
        CASE t = "h1" -> <<"h","1">> [] t = "h4" -> <<"h","4">> [] t = "p" -> <<"p">>
          [] t = "a" -> <<"a">> [] t = "script" -> <<"s","c","r","i","p","t">>]

\* the markup of one element, and of the document
Markup(el) ==
    <<"<">> \o TagChars[el.tag]
      \o (IF el.href = <<>> THEN <<>> ELSE <<" ","h","r","e","f","=","'">> \o el.href \o <<"'">>)
      \o <<">">> \o el.inner \o <<"<","/">> \o TagChars[el.tag] \o <<">">>

RECURSIVE HtmlOf(_)
HtmlOf(elems) == IF elems = <<>> THEN <<>> ELSE Markup(Head(elems)) \o HtmlOf(Tail(elems))

\* html.unescape, for the entities the model's pages use
ENTITIES ==
    { [src |-> <<"&","#","1","1","2",";">>, dst |-> <<"p">>],
      [src |-> <<"&","a","m","p",";">>, dst |-> <<"&">>] }

StartsWith(s, pre) == Len(s) >= Len(pre) /\ SubSeq(s, 1, Len(pre)) = pre

RECURSIVE unescape(_)
unescape(s) ==
    IF s = <<>> THEN <<>>
    ELSE IF \E e \in ENTITIES : StartsWith(s, e.src)
      THEN LET e == CHOOSE x \in ENTITIES : StartsWith(s, x.src)
           IN  e.dst \o unescape(SubSeq(s, Len(e.src) + 1, Len(s)))
    ELSE <<Head(s)>> \o unescape(Tail(s))

\* re.sub(r"\s+", " ", unescape(text)).strip()
cleanText(inner) == join(<<" ">>, split(unescape(inner)))

\* _strip_scripts_and_styles: script, style, ... elements go with their content
_strip_scripts_and_styles(elems) == SelectSeq(elems, LAMBDA el : el.tag \notin STRIPPED_TAGS)

\* index.py:142-148: a block is appended unless an equal one came before it
firstSeen(blocks, i, seen) == blocks[i] \notin seen /\ \A j \in 1..(i - 1) : blocks[j] /= blocks[i]

picked(blocks, at) == [k \in 1..Len(at) |-> blocks[at[k]]]

dedupe(blocks, seen) ==
    picked(blocks, SelectSeq([i \in 1..Len(blocks) |-> i], LAMBDA i : firstSeen(blocks, i, seen)))

\* index.py:125-131: is the text of an element with this tag kept
keptBlock(tag, text) ==
    /\ text /= <<>>
    /\ ~(tag \notin {"h1", "h2", "h3"} /\ Len(text) < MIN_OTHER_LEN /\ ~anyPattern(text))

\* the kept texts of the elements with one tag, in document order (index.py:121-131)
textsOf(elems) == [i \in 1..Len(elems) |-> cleanText(elems[i].inner)]

blocksOfTag(cleaned, tag) ==
    textsOf(SelectSeq(cleaned, LAMBDA el : el.tag = tag /\ keptBlock(tag, cleanText(el.inner))))

RECURSIVE blocksOfTags(_, _)
blocksOfTags(cleaned, tags) ==
    IF tags = <<>> THEN <<>>
    ELSE blocksOfTag(cleaned, Head(tags)) \o blocksOfTags(cleaned, Tail(tags))

\* index.py:137-140
keptAnchor(text) == text /= <<>> /\ (Len(text) >= MIN_ANCHOR_LEN \/ anyPattern(text))

\* the kept anchor texts (index.py:133-140)
anchorBlocks(cleaned) ==
    textsOf(SelectSeq(cleaned, LAMBDA el : el.tag = "a" /\ keptAnchor(cleanText(el.inner))))

\* index.py:141-149
capped_one_more(unique_blocks) == SubSeq(unique_blocks, 1, min(MAX_BLOCKS + 1, Len(unique_blocks)))

\* index.py:149
capped(unique_blocks) == SubSeq(unique_blocks, 1, min(MAX_BLOCKS, Len(unique_blocks)))

uniqueCapped(blocks) == capped(dedupe(blocks, {}))

\* index.py:118-140: the heading, paragraph and list-item blocks, then the anchor blocks
concatenated(cleaned) == blocksOfTags(cleaned, BLOCK_TAGS) \o anchorBlocks(cleaned)

blocksOfCleaned(cleaned) == uniqueCapped(concatenated(cleaned))

extract_text_blocks(elems) == blocksOfCleaned(_strip_scripts_and_styles(elems))

\* the one-character string "..." stands for the ellipsis character U+2026
SENTENCE_END == {".", "!", "?", "..."}

\* re.split(r"(?<=[\.!?...])\s+", text): cut at each run of whitespace that follows
\* a sentence end; the run itself is dropped
endsSentence(s, i) == s[i] \in WS /\ s[i - 1] \in SENTENCE_END

\* the position of the first whitespace that follows a sentence end, or 0
sentenceCut(s) ==
    IF \E i \in 2..Len(s) : endsSentence(s, i)
      THEN CHOOSE i \in 2..Len(s) : endsSentence(s, i) /\ \A j \in 2..(i - 1) : ~endsSentence(s, j)
      ELSE 0

RECURSIVE splitSentences(_, _)
cutSentence(s, cut, acc) ==
    IF cut = 0 THEN Append(acc, s)
    ELSE splitSentences(lstrip(SubSeq(s, cut, Len(s))), Append(acc, SubSeq(s, 1, cut - 1)))

splitSentences(s, acc) == cutSentence(s, sentenceCut(s), acc)

nonEmptyStripped(parts) == SelectSeq([i \in 1..Len(parts) |-> strip(parts[i])], LAMBDA q : q /= <<>>)

splitStripped(t) == IF t = <<>> THEN <<>> ELSE nonEmptyStripped(splitSentences(t, <<>>))

split_into_sentences(text) == splitStripped(strip([i \in 1..Len(text) |-> IF text[i] = "\n" THEN " " ELSE text[i]]))

\* index.py:325-333: the first sentence with the highest score; 0 when none scores
bestOf(i, sc, best) == IF sc > best.score THEN [idx |-> i, score |-> sc] ELSE best

RECURSIVE bestFromRec(_, _, _)
bestFromRec(sentences, i, best) ==
    IF i > Len(sentences) THEN best
    ELSE bestFromRec(sentences, i + 1, bestOf(i, score_text_block(sentences[i]).score, best))

bestFrom(sentences, i, best_idx, best_score) == bestFromRec(sentences, i, [idx |-> best_idx, score |-> best_score])

\* s.rsplit(" ", 1)[0]
lastSpace(s, i) == CHOOSE k \in 1..i : s[k] = " " /\ \A j \in (k + 1)..i : s[j] /= " "

rsplitHead(s, i) == IF \E k \in 1..i : s[k] = " " THEN SubSeq(s, 1, lastSpace(s, i) - 1) ELSE s

ELLIPSIS == <<" ", "...">>

\* index.py:335-337: the best sentence with one neighbour on each side
\* (sentences are 0-indexed in the code and 1-indexed here)
snippetText(sentences, best_idx) ==
    strip(join(<<" ">>, SubSeq(sentences, max(1, best_idx - 1), min(Len(sentences), best_idx + 1))))

\* index.py:338-339
truncate(snippet) ==
    IF Len(snippet) > SNIPPET_MAX
      THEN rsplitHead(SubSeq(snippet, 1, SNIPPET_MAX), SNIPPET_MAX) \o ELLIPSIS
      ELSE snippet

snippetResult(sentences, b) ==
    [snippet |-> truncate(snippetText(sentences, b.idx)),
     score |-> b.score,
     hits |-> IF b.score > 0 THEN score_text_block(sentences[b.idx]).hits ELSE <<>>]

snippetOfSentences(sentences) ==
    IF sentences = <<>> THEN [snippet |-> <<>>, score |-> 0, hits |-> <<>>]
    ELSE snippetResult(sentences, bestFrom(sentences, 1, 1, 0))

\* best_sentence_snippet: (snippet, best_score, best_hits)
best_sentence_snippet(block_text) == snippetOfSentences(split_into_sentences(block_text))

\* index.py:363-366
better(r, best) == IF r.score > best.score /\ r.snippet /= <<>> THEN r ELSE best

\* index.py:358-366: the first block whose best sentence scores highest
RECURSIVE bestBlock(_, _)
bestBlock(blocks, best) ==
    IF blocks = <<>> THEN best
    ELSE bestBlock(Tail(blocks), better(best_sentence_snippet(Head(blocks)), best))

\* page_has_core: a core pattern matches somewhere in the raw markup
page_has_core(elems) == \E alts \in CORE_PATTERNS : search(alts, HtmlOf(elems))

gate_without_core(elems, best) == best.score < MIN_SCORE_TO_LOG \/ best.snippet = <<>>

\* index.py:367: the rejection of a page
gate_rejects(elems, best) == ~page_has_core(elems) \/ best.score < MIN_SCORE_TO_LOG \/ best.snippet = <<>>

\* index.py:367-377
findingOrNone(url, resp, best) ==
    IF gate_rejects(resp.elems, best) THEN None
    ELSE [kind |-> "Finding", url |-> url, score |-> best.score,
          confidence |-> min(100, best.score * 10),
          text |-> best.snippet, hits |-> best.hits, html |-> resp.elems]

\* scan_page_for_chase, given what requests.get produced for the URL: a
\* RequestException, or a response [status, html (content type), denied
\* (the body holds the soft-block marker), elems (the body)].
\* confidence is kept in hundredths.
scan_page_for_chase(url, resp) ==
    IF resp.kind = "error" THEN None
    ELSE IF resp.status >= 400 THEN None
    ELSE IF ~resp.html THEN None
    ELSE IF resp.denied THEN None
    ELSE findingOrNone(url, resp, bestBlock(extract_text_blocks(resp.elems), [snippet |-> <<>>, score |-> 0, hits |-> <<>>]))

(***************************************************************************)
(* index.py: the title/link resolver                                       *)
(***************************************************************************)
\* urljoin(base_url, href) for an href that is a path on the same site
urljoin(base, href) == [site |-> base.site, path |-> href]

\* _domain_of: the netloc of the URL
_domain_of(url) == url.site

\* _extract_anchors: (text, href) of the anchors that carry an href and a text
RECURSIVE _extract_anchors(_)
_extract_anchors(elems) ==
    IF elems = <<>> THEN <<>>
    ELSE LET el == Head(elems)
             keep == /\ el.tag \notin STRIPPED_TAGS
                     /\ el.tag = "a"
                     /\ el.href /= <<>>
                     /\ cleanText(el.inner) /= <<>>
         IN  (IF keep THEN <<[text |-> cleanText(el.inner), href |-> el.href]>> ELSE <<>>)
               \o _extract_anchors(Tail(elems))

RECURSIVE headsOfTag(_, _)
headsOfTag(cleaned, tag) ==
    IF cleaned = <<>> THEN <<>>
    ELSE LET el == Head(cleaned)
         IN  (IF el.tag = tag /\ cleanText(el.inner) /= <<>> THEN <<cleanText(el.inner)>> ELSE <<>>)
               \o headsOfTag(Tail(cleaned), tag)

RECURSIVE headsOfTags(_, _)
headsOfTags(cleaned, tags) ==
    IF tags = <<>> THEN <<>>
    ELSE headsOfTag(cleaned, Head(tags)) \o headsOfTags(cleaned, Tail(tags))

_extract_headings(elems) == headsOfTags(_strip_scripts_and_styles(elems), HEADING_TAGS)

\* the score of a candidate title: its pattern score, plus 6 for the word "live"
titleScore(text) == score_text_block(text).score + (IF search({L_live}, text) THEN LIVE_BONUS ELSE 0)

NoLink == [site |-> 0, path |-> <<>>]

RECURSIVE bestAnchor(_, _, _)
bestAnchor(anchors, base, best) ==
    IF anchors = <<>> THEN best
    ELSE LET a == Head(anchors)
         IN  IF titleScore(a.text) > best.score
               THEN bestAnchor(Tail(anchors), base, [title |-> a.text, href |-> urljoin(base, a.href), score |-> titleScore(a.text)])
               ELSE bestAnchor(Tail(anchors), base, best)

RECURSIVE bestHeading(_, _)
bestHeading(headings, best) ==
    IF headings = <<>> THEN best
    ELSE IF titleScore(Head(headings)) > best.score
      THEN bestHeading(Tail(headings), [title |-> Head(headings), href |-> NoLink, score |-> titleScore(Head(headings))])
    ELSE bestHeading(Tail(headings), best)

\* _choose_best_title_and_link: (best_title, best_href); <<>> and NoLink stand for None
_choose_best_title_and_link(elems, base) ==
    bestHeading(_extract_headings(elems), bestAnchor(_extract_anchors(elems), base, [title |-> <<>>, href |-> NoLink, score |-> 0]))

L_stream == <<"s","t","r","e","a","m">>

L_watch == <<"w","a","t","c","h">>

L_coverage == <<"c","o","v","e","r","a","g","e">>

\* re.search(r"\blive|watch\s+live|live\s+stream|live\s+coverage\b", text, re.I)
liveWording(text) ==
    \E i \in 1..Len(text) :
        \/ Boundary(text, i) /\ matchLit(text, i, L_live) > 0
        \/ matchLit(text, i, L_watch \o <<"~">> \o L_live) > 0
        \/ matchLit(text, i, L_live \o <<"~">> \o L_stream) > 0
        \/ LET e == matchLit(text, i, L_live \o <<"~">> \o L_coverage) IN e > 0 /\ Boundary(text, e)

\* re.search(r"/live|live-", href, re.I)
liveHref(href) ==
    \E i \in 1..Len(href) :
        \/ matchLit(href, i, <<"/">> \o L_live) > 0
        \/ matchLit(href, i, L_live \o <<"-">>) > 0

\* _find_any_live_link: the first anchor that looks live, or NoLink
RECURSIVE firstLive(_, _)
firstLive(anchors, base) ==
    IF anchors = <<>> THEN NoLink
    ELSE IF liveWording(Head(anchors).text) \/ liveHref(Head(anchors).href)
      THEN urljoin(base, Head(anchors).href)
    ELSE firstLive(Tail(anchors), base)

_find_any_live_link(elems, base) == firstLive(_extract_anchors(elems), base)

(***************************************************************************)
(* index.py: the two oracle gateways                                       *)
(***************************************************************************)
\* index.py:227-228 and 300-301: the reading of the answer. split()[0] of a
\* text without tokens raises IndexError, outside the try.
answerOf(resp) ==
    IF resp = <<>> THEN [raised |-> FALSE, value |-> FALSE]
    ELSE LET tokens == split(strip(resp))
         IN  IF tokens = <<>> THEN [raised |-> TRUE, value |-> FALSE]
             ELSE [raised |-> FALSE, value |-> upper(tokens[1]) = T_YES]

gateway_uncaught(out) == IF out.kind = "raise" THEN [raised |-> TRUE, value |-> FALSE] ELSE answerOf(out.text)

\* index.py:223-228 and 296-301: what the gateway makes of the outcome of its ask_gemini call
gateway(out) == IF out.kind = "raise" THEN [raised |-> FALSE, value |-> FALSE] ELSE answerOf(out.text)

SamePrompt(previous, current) == [kind |-> "same", title |-> <<>>, prev |-> previous, curr |-> current]

(***************************************************************************)
(* index.py: the persisted last chase                                      *)
(***************************************************************************)
\* last_chase.json is absent, damaged (unreadable or not JSON) or holds the saved object
load_none(f) == None

load_raises(f) == IF f.state = "ok" THEN f.info ELSE IF f.state = "absent" THEN None ELSE [kind |-> "raise"]

_load_last_chase(f) == IF f.state = "ok" THEN f.info ELSE None

save_nothing(f, info, w) == f

\* index.py:262-267; w tells how the write ends
_save_last_chase(f, info, w) ==
    CASE w = "ok" -> [state |-> "ok", info |-> info]
      [] w = "open_fails" -> f
      [] w = "dump_fails" -> [state |-> "damaged", info |-> None]

\* index.py:416-423
current_obj(title, result, live_link, now) ==
    [kind |-> "chase", title |-> title, text |-> result.text, page_url |-> result.url,
     source_site |-> _domain_of(result.url), live_link |-> live_link, at |-> now]

saved_info_stale_link(title, result, live_link, now) ==
    [kind |-> "chase", title |-> title, text |-> result.text, page_url |-> result.url,
     source_site |-> _domain_of(result.url), live_link |-> result.url, at |-> now]

\* index.py:432-439: the object that is saved; "at" is alerted_at
saved_info(title, result, live_link, now) ==
    [kind |-> "chase", title |-> title, text |-> result.text, page_url |-> result.url,
     source_site |-> _domain_of(result.url), live_link |-> live_link, at |-> now]

(***************************************************************************)
(* Initial state: nothing persisted, nothing cached, no invocation started *)
(***************************************************************************)
\* the locals of one pass of the per-URL loop, with what the pass consulted and did
NoCur ==
    [result |-> None, title |-> <<>>, href |-> [site |-> 0, path |-> <<>>],
     found |-> [site |-> 0, path |-> <<>>],
     live_link |-> [site |-> 0, path |-> <<>>], last |-> None, loaded |-> "",
     liveAsked |-> FALSE, live |-> FALSE, liveOut |-> None,
     dupAsked |-> FALSE, dup |-> FALSE, dupOut |-> None, alerted |-> FALSE,
     posted |-> FALSE]

\* history: stored - the responses the calls of the ask_gemini harness stored,
\* by (prompt, model);
\* scanned - the URLs scanned by this invocation, in the order of scanning;
\* lastAlerted, lastSave - the event of the latest alert (title, text, page_url,
\* source_site, live_link) and how its save ended;
\* row - the findings decided since the start, for as long as they are one
\* finding, confirmed live every time and called the same chase at every
\* consultation: how many, the finding, the alerts sent for them, how the
\* save of the first alert ended and the last-chase file it left
NoRow == [holds |-> FALSE, n |-> 0, first |-> None, alerts |-> 0, firstSave |-> "", afterFirst |-> None]

Hist0 ==
    [stored |-> <<>>, scanned |-> <<>>, lastAlerted |-> None, lastSave |-> "",
     row |-> [NoRow EXCEPT !.holds = TRUE]]

Init ==
    /\ pc = "start"
    /\ run = 0
    /\ env = [apiKey |-> TRUE, webhook |-> TRUE]
    /\ idx = 0
    /\ cur = NoCur
    /\ file = [state |-> "absent", info |-> None]
    /\ cache = <<>>
    /\ ask = NoCall
    /\ askOut = NoOut
    /\ page = None
    /\ hist = Hist0

(***************************************************************************)
(* Harness of ask_gemini: calls with any prompt, model, max_retries, with  *)
(* and without GEMINI_API_KEY, against the cache the earlier calls left    *)
(***************************************************************************)
LivePrompt(title) == [kind |-> "live", title |-> title, prev |-> None, curr |-> None]

HarnessPrompts == {LivePrompt(T_YES), LivePrompt(T_NO)}

HarnessModels == {DEFAULT_MODEL, "gemini-2.5-pro"}

\* a call of ask_gemini, from its start to its return or its exception
AskCall ==
    /\ pc = "start"
    /\ \E p \in HarnessPrompts, m \in HarnessModels, n \in 0..MaxRetriesArg, k \in BOOLEAN :
          \E res \in ask_gemini(cache, k, p, m, n) :
             /\ env' = [env EXCEPT !.apiKey = k]
             /\ ask' = [prompt |-> p, model |-> m, max_retries |-> n,
                        stored |-> IF <<p, m>> \in DOMAIN hist.stored
                                     THEN [kind |-> "text", text |-> hist.stored[<<p, m>>]]
                                     ELSE None]
             /\ askOut' = res.out
             /\ cache' = res.cache
             /\ hist' = IF res.written = None THEN hist
                        ELSE [hist EXCEPT !.stored = (<<p, m>> :> res.written.text) @@ @]
    /\ pc' = "called"
    /\ UNCHANGED <<run, idx, cur, file, page>>

\* the caller takes the result and goes on
AskReturn ==
    /\ pc = "called"
    /\ pc' = "start"
    /\ ask' = NoCall
    /\ askOut' = NoOut
    /\ UNCHANGED <<run, env, idx, cur, file, cache, page, hist>>

NextAsk == AskCall \/ AskReturn

SpecAsk == Init /\ [][NextAsk]_vars

(***************************************************************************)
(* Claims about ask_gemini                                                 *)
(***************************************************************************)
CallDone == pc = "called"

\* C9 as stated: once a response is stored for (prompt, model), every later
\* call with that prompt and model returns it, with no oracle attempt, no
\* cache-miss log message and no sleep.
C9_StoredAlwaysReturned ==
    (CallDone /\ ask.stored /= None) =>
        /\ askOut.kind = "return"
        /\ askOut.text = ask.stored.text
        /\ askOut.attempts = 0 /\ askOut.logs = 0 /\ askOut.sleeps = 0

\* C9 amended: once a response is stored for (prompt, model), every later
\* call with that prompt and model that is made with GEMINI_API_KEY set
\* returns it, with no oracle attempt, no cache-miss log message and no sleep;
\* without the key the call raises ValueError before the cache is looked at.
\* A response returned from the cache is the one stored for that very pair.
C9_StoredReturnedWhenKeySet ==
    /\ (CallDone /\ ask.stored /= None /\ env.apiKey) =>
          /\ askOut.kind = "return"
          /\ askOut.text = ask.stored.text
          /\ askOut.hit
          /\ askOut.attempts = 0 /\ askOut.logs = 0 /\ askOut.sleeps = 0
    /\ (CallDone /\ ~env.apiKey) =>
          /\ askOut.kind = "raise" /\ askOut.error = "ValueError"
          /\ askOut.attempts = 0 /\ askOut.logs = 0 /\ askOut.sleeps = 0
    /\ (CallDone /\ askOut.hit) =>
          /\ ask.stored /= None
          /\ askOut.text = ask.stored.text

C9_Witness ==
    /\ CallDone /\ env.apiKey /\ askOut.hit
    /\ ask.stored /= None
    /\ ask.max_retries > 0
    /\ ask.model /= DEFAULT_MODEL

\* all but the last attempt came back empty or failed
NoTextBeforeLast(trail) == \A i \in 1..(Len(trail) - 1) : trail[i] /= "text"

\* C10: on a cache miss (the call has the API key and finds no response
\* stored) ask_gemini makes at most max_retries attempts, returns the first
\* non-empty response at once, returns empty text when the attempts run out
\* on an empty response, raises an error only when the last attempt fails,
\* and every call comes to its end, returning or raising.
C10_BoundedRetry ==
    /\ CallDone => askOut.kind \in {"return", "raise"}
    /\ (CallDone /\ env.apiKey /\ ~askOut.hit) =>
          /\ askOut.attempts <= ask.max_retries
          /\ askOut.attempts = Len(askOut.trail)
          /\ askOut.sleeps <= askOut.attempts
          /\ NoTextBeforeLast(askOut.trail)
          /\ (askOut.kind = "return" /\ askOut.text /= <<>>) =>
                askOut.trail[Len(askOut.trail)] = "text"
          /\ (askOut.kind = "return" /\ askOut.text = <<>>) =>
                /\ askOut.attempts = ask.max_retries
                /\ \A i \in 1..Len(askOut.trail) : askOut.trail[i] /= "text"
          /\ askOut.kind = "raise" =>
                /\ askOut.attempts = ask.max_retries
                /\ askOut.trail[Len(askOut.trail)] = "error"

C10_Witness ==
    /\ CallDone /\ env.apiKey /\ ~askOut.hit
    /\ ask.max_retries = DEFAULT_MAX_RETRIES
    /\ askOut.kind = "return" /\ askOut.text /= <<>>
    /\ askOut.trail = <<"error", "empty", "text">>

(***************************************************************************)
(* Harness of scan_page_for_chase: every response built from the element   *)
(* texts below                                                             *)
(***************************************************************************)
SP == <<" ">>

X_plain == <<"C","r","a","s","h">>

X_core == <<"L","I","V","E">> \o SP \o L_pursuit \o SP \o <<"o","n">> \o SP \o <<"F","r","e","e","w","a","y",".">>

X_noncore == L_fleeing \o SP \o L_newschopper

X_two == <<"M","a","n">> \o SP \o L_fleeing \o <<".">> \o SP \o <<"N","e","w","s">> \o <<"\n">> \o <<"c","h","o","p","p","e","r">> \o SP \o <<"u","p",".">>

X_entity == <<"&","#","1","1","2",";","u","r","s","u","i","t">> \o SP \o <<"n","o","w">>

X_long == X_plain \o SP \o <<"&","a","m","p",";">> \o SP \o X_plain \o SP \o X_plain \o SP \o X_plain \o SP \o X_plain

H_none == <<>>

H_live_pursuit == <<"/">> \o L_live \o <<"-">> \o L_pursuit

HarnessElems ==
    [tag : {"h1"}, href : {H_none}, inner : {X_core, X_noncore, X_entity}]
      \cup [tag : {"p"}, href : {H_none}, inner : {X_plain, X_long, X_noncore, X_two}]
      \cup [tag : {"script"}, href : {H_none}, inner : {X_core}]
      \cup [tag : {"a"}, href : {H_none}, inner : {X_noncore}]
      \cup [tag : {"a"}, href : {H_live_pursuit}, inner : {X_noncore, X_plain}]

RECURSIVE SeqsUpTo(_, _)
SeqsUpTo(S, n) ==
    IF n = 0 THEN {<<>>}
    ELSE LET shorter == SeqsUpTo(S, n - 1)
         IN  shorter \cup {Append(q, x) : q \in shorter, x \in S}

OkResp(elems) == [kind |-> "ok", status |-> 200, html |-> TRUE, denied |-> FALSE, elems |-> elems]

CorePage == <<[tag |-> "h1", href |-> H_none, inner |-> X_core]>>

\* responses that are rejected before the text is looked at
BadResps ==
    { [OkResp(CorePage) EXCEPT !.kind = "error"],
      [OkResp(CorePage) EXCEPT !.status = 404],
      [OkResp(CorePage) EXCEPT !.html = FALSE],
      [OkResp(CorePage) EXCEPT !.denied = TRUE] }

ScanInputs == BadResps \cup {OkResp(e) : e \in SeqsUpTo(HarnessElems, MaxElems)}

Url(i) == [site |-> i, path |-> <<>>]

\* the configured URL list (index.py:34-51, 393), cut to NumUrls entries
news == [i \in 1..NumUrls |-> Url(i)]

ScanHarness ==
    /\ pc = "start"
    /\ \E resp \in ScanInputs :
          /\ page' = resp
          /\ cur' = [NoCur EXCEPT !.result = scan_page_for_chase(news[1], resp)]
    /\ pc' = "scanned"
    /\ UNCHANGED <<run, env, idx, file, cache, ask, askOut, hist>>

NextScan == ScanHarness

SpecScan == Init /\ [][NextScan]_vars

(***************************************************************************)
(* Claim about scan_page_for_chase                                         *)
(***************************************************************************)
\* the scores of all sentences of a sequence of blocks
RECURSIVE SentenceScores(_)
SentenceScores(blocks) ==
    IF blocks = <<>> THEN {}
    ELSE LET sentences == split_into_sentences(Head(blocks))
         IN  {score_text_block(sentences[j]).score : j \in 1..Len(sentences)}
               \cup SentenceScores(Tail(blocks))

BestSentenceScore(elems) ==
    LET scores == SentenceScores(extract_text_blocks(elems))
    IN  IF scores = {} THEN 0 ELSE CHOOSE m \in scores : \A x \in scores : x <= m

RawHasCore(elems) ==
    \E i \in DOMAIN PATTERNS :
        /\ PATTERNS[i].name \in CORE_NAMES
        /\ findall(PATTERNS[i].alts, HtmlOf(elems)) > 0

\* C8: a Finding is returned only if the raw HTML matches a core signal, the
\* best sentence score over all extracted blocks is at least 6 and the snippet
\* is not empty; a page whose raw HTML matches no core signal is rejected
\* whatever its blocks score.
C8_FindingGate ==
    pc = "scanned" =>
        LET best == BestSentenceScore(page.elems)
            core == RawHasCore(page.elems)
        IN  /\ cur.result /= None =>
                  /\ page.kind = "ok" /\ page.status < 400 /\ page.html /\ ~page.denied
                  /\ core
                  /\ best >= MIN_SCORE_TO_LOG
                  /\ cur.result.score = best
                  /\ cur.result.text /= <<>>
            /\ (page.kind = "ok" /\ ~core) => cur.result = None

\* a page with no core signal in its markup and a sentence scoring 6 from
\* non-core signals was scanned, and rejected
C8_Witness ==
    /\ pc = "scanned"
    /\ page.kind = "ok" /\ page.status < 400 /\ page.html /\ ~page.denied
    /\ ~RawHasCore(page.elems)
    /\ BestSentenceScore(page.elems) >= MIN_SCORE_TO_LOG
    /\ cur.result = None

(***************************************************************************)
(* index.py: main, the per-URL loop                                        *)
(***************************************************************************)
\* what the sites can serve: a transport error, a page not found, a page whose
\* anchor headlines a live pursuit, a page with the same headline over a
\* paragraph that scores higher, a page with freeway/chopper talk only
PageA == <<[tag |-> "a", href |-> H_live_pursuit, inner |-> X_core]>>

X_chase == <<"P","o","l","i","c","e">> \o SP \o <<"c","h","a","s","e">> \o SP \o X_core

PageB == <<[tag |-> "a", href |-> H_live_pursuit, inner |-> X_core], [tag |-> "p", href |-> H_none, inner |-> X_chase]>>

PageC == <<[tag |-> "p", href |-> H_none, inner |-> X_noncore]>>

SiteResps == {[OkResp(PageA) EXCEPT !.kind = "error"], [OkResp(PageA) EXCEPT !.status = 404], OkResp(PageA), OkResp(PageB), OkResp(PageC)}

\* index.py:412: the live link of the alert
liveLinkOf(found, href, url) == IF found /= NoLink THEN found ELSE IF href /= NoLink THEN href ELSE url

\* index.py:402-404, 412
factsOf(result, t) ==
    [result |-> result,
     title |-> IF t.title = <<>> THEN result.text ELSE t.title,
     href |-> t.href,
     live_link |-> liveLinkOf(_find_any_live_link(result.html, result.url), t.href, result.url)]

factsOfResult(result) ==
    IF result = None
      THEN [result |-> None, title |-> <<>>, href |-> NoLink, live_link |-> NoLink]
      ELSE factsOf(result, _choose_best_title_and_link(result.html, result.url))

\* What one pass of the loop computes from the response alone: the finding
\* (index.py:396), the title and candidate link (402-404), the live link (412)
PageFacts(url, resp) == factsOfResult(scan_page_for_chase(url, resp))

\* PageFacts of every URL and response, computed once
FACTS == [i \in 1..NumUrls |-> [resp \in SiteResps |-> PageFacts(news[i], resp)]]

\* _utcnow_iso: the clock is read as coarsely as the invocations; it moves on
\* from one invocation to the next
Now == run

\* continue, or the end of the loop body: on to the loop header
Continue ==
    /\ pc' = "next"
    /\ idx' = idx

\* a new invocation of the program, in its environment
StartRun ==
    /\ pc \in {"start", "done", "crashed"}
    /\ run < MaxRuns
    /\ run' = run + 1
    /\ \E k \in BOOLEAN, h \in BOOLEAN : env' = [apiKey |-> k, webhook |-> h]
    /\ idx' = 1
    /\ pc' = "scan"
    /\ cur' = NoCur
    /\ hist' = [hist EXCEPT !.scanned = <<>>]
    /\ UNCHANGED <<file, cache, ask, askOut, page>>

\* what the caller sees of a call of ask_gemini: the text returned or the
\* exception raised, and the cache it leaves
Brief(out) == [kind |-> out.kind, text |-> out.text, error |-> out.error]

Calls(results) == {[out |-> Brief(r.out), cache |-> r.cache] : r \in results}

\* the finding was taken to its decision: what the history keeps of it
Processed(h, ev, liveYes, dupAsked, dupYes) ==
    IF h.row.holds /\ (h.row.n = 0 \/ h.row.first = ev) /\ liveYes /\ (dupAsked => dupYes)
      THEN [h EXCEPT !.row = [@ EXCEPT !.n = @ + 1, !.first = ev]]
      ELSE [h EXCEPT !.row = NoRow]

\* index.py:410: the live classifier has answered the call res for the finding f
Classified(f, logWritten, res, g, seen) ==
    LET base == [NoCur EXCEPT !.result = f.result, !.title = f.title, !.href = f.href,
                              !.found = f.live_link, !.liveAsked = TRUE,
                              !.liveOut = res.out, !.live = g.value]
    IN  /\ cache' = res.cache
        /\ cur' = base
        /\ IF g.raised
             THEN /\ pc' = "crashed"
                  /\ hist' = seen
                  /\ idx' = idx
           ELSE IF ~g.value
             THEN /\ hist' = Processed(seen, [title |-> f.title, text |-> f.result.text], FALSE, FALSE, FALSE)
                  /\ Continue
           ELSE   /\ pc' = "dedup"
                  /\ hist' = seen
                  /\ idx' = idx

\* index.py:396-410: scan the URL, log the finding, choose the title, and
\* ask the live classifier
Scan ==
    /\ pc = "scan"
    /\ \E resp \in SiteResps, logWritten \in BOOLEAN :
          LET f == FACTS[idx][resp]
              seen == [hist EXCEPT !.scanned = Append(@, idx)]
          IN  IF f.result = None
                THEN /\ cur' = NoCur
                     /\ hist' = seen
                     /\ Continue
                     /\ cache' = cache
              ELSE IF f.title = <<>>
                THEN /\ cur' = [NoCur EXCEPT !.result = f.result, !.title = f.title, !.href = f.href]
                     /\ hist' = seen
                     /\ Continue
                     /\ cache' = cache
              ELSE \E res \in Calls(ask_gemini(cache, env.apiKey, LivePrompt(f.title), DEFAULT_MODEL, DEFAULT_MAX_RETRIES)) :
                      Classified(f, logWritten, res, gateway(res.out), seen)
    /\ UNCHANGED <<run, env, file, ask, askOut, page>>

\* A deduplication prompt carries the URL under scan and the time of the
\* evaluation: no later call repeats it, the cache file written for it is
\* never read again, and the cache is followed without it.
forget(c, key) == [k \in DOMAIN c \ {key} |-> c[k]]

compared_no_continue(base, prompt, res, g) ==
    /\ cache' = res.cache
    /\ cur' = [base EXCEPT !.dupAsked = TRUE, !.dupOut = res.out, !.dup = g.value]
    /\ pc' = "alert"
    /\ UNCHANGED <<idx, hist>>

\* index.py:424-426: the deduplication classifier has answered the call res
Compared(base, prompt, res, g) ==
    /\ cache' = forget(res.cache, _cache_key([prompt |-> prompt, model |-> DEFAULT_MODEL]))
    /\ cur' = [base EXCEPT !.dupAsked = TRUE, !.dupOut = res.out, !.dup = g.value]
    /\ IF g.raised
         THEN /\ pc' = "crashed"
              /\ UNCHANGED <<idx, hist>>
       ELSE IF g.value
         THEN /\ hist' = Processed(hist, [title |-> cur.title, text |-> cur.result.text], TRUE, TRUE, TRUE)
              /\ Continue
       ELSE   /\ pc' = "alert"
              /\ UNCHANGED <<idx, hist>>

\* index.py:411-426: the finding is live: choose the live link, load the last
\* chase and, when there is one, ask the deduplication classifier
Dedup ==
    /\ pc = "dedup"
    /\ LET live_link == cur.found
           last == _load_last_chase(file)
           base == [cur EXCEPT !.live_link = live_link, !.last = last, !.loaded = file.state]
           prompt == SamePrompt(last, current_obj(cur.title, cur.result, live_link, Now))
       IN  IF last = None
             THEN /\ cur' = base
                  /\ pc' = "alert"
                  /\ UNCHANGED <<idx, hist, cache>>
             ELSE \E res \in Calls(ask_gemini(cache, env.apiKey, prompt, DEFAULT_MODEL, DEFAULT_MAX_RETRIES)) :
                     Compared(base, prompt, res, gateway(res.out))
    /\ UNCHANGED <<run, env, file, ask, askOut, page>>

\* index.py:428-439: send the alert (posted when DISCORD_WEBHOOK is set; a
\* failing post is swallowed) and save the chase (a failing write is swallowed)
Alert ==
    /\ pc = "alert"
    /\ \E posted \in BOOLEAN, w \in SaveOutcomes :
          LET event == [title |-> cur.title, text |-> cur.result.text,
                        page_url |-> cur.result.url, source_site |-> cur.result.url.site,
                        live_link |-> cur.live_link]
              saved == _save_last_chase(file, saved_info(cur.title, cur.result, cur.live_link, Now), w)
              h == Processed(hist, [title |-> cur.title, text |-> cur.result.text], TRUE, cur.dupAsked, FALSE)
          IN  /\ file' = saved
              /\ hist' = [h EXCEPT !.lastAlerted = event,
                                   !.lastSave = w,
                                   !.row = IF ~h.row.holds THEN NoRow
                                           ELSE [@ EXCEPT !.alerts = @ + 1,
                                                          !.firstSave = IF hist.row.alerts = 0 THEN w ELSE @,
                                                          !.afterFirst = IF hist.row.alerts = 0 THEN saved ELSE @]]
              /\ cur' = [cur EXCEPT !.alerted = TRUE, !.posted = env.webhook /\ posted]
    /\ Continue
    /\ UNCHANGED <<run, env, cache, ask, askOut, page>>

\* index.py:395: the for loop moves on to the next URL, or ends
NextUrl ==
    /\ pc = "next"
    /\ idx' = idx + 1
    /\ pc' = IF idx + 1 > NumUrls THEN "done" ELSE "scan"
    /\ cur' = NoCur
    /\ UNCHANGED <<run, env, file, cache, ask, askOut, page, hist>>

Next == StartRun \/ Scan \/ Dedup \/ Alert \/ NextUrl


Spec == Init /\ [][Next]_vars

(***************************************************************************)
(* Claims about the per-URL loop                                           *)
(***************************************************************************)
\* the first whitespace-delimited token of a text, <<>> when it has none
RECURSIVE TokenFrom(_, _)
TokenFrom(text, i) ==
    IF i > Len(text) \/ text[i] \in WS THEN <<>> ELSE <<text[i]>> \o TokenFrom(text, i + 1)

FirstToken(text) ==
    IF \A i \in 1..Len(text) : text[i] \in WS THEN <<>>
    ELSE TokenFrom(text, CHOOSE i \in 1..Len(text) : text[i] \notin WS /\ \A j \in 1..(i - 1) : text[j] \in WS)

\* the call returned a text whose first token, upper-cased, is YES
SaysYES(out) ==
    /\ out.kind = "return"
    /\ [i \in 1..Len(FirstToken(out.text)) |-> upperChar(FirstToken(out.text)[i])] = <<"Y", "E", "S">>

\* the five fields of an event that the last-chase file holds
EventOf(info) ==
    [title |-> info.title, text |-> info.text, page_url |-> info.page_url,
     source_site |-> info.source_site, live_link |-> info.live_link]

\* the pass on the current URL got a Finding, a true from the live classifier
\* and then no previous event or a false from the deduplication classifier
C1_Gate ==
    /\ cur.result /= None
    /\ cur.liveAsked /\ cur.live
    /\ cur.last = None \/ (cur.dupAsked /\ ~cur.dup)

\* C1: in the per-URL loop an alert is sent and the last-chase file is written
\* for a URL only if, in this order, scan_page_for_chase returned a Finding,
\* _ask_is_live_ongoing returned true for the chosen title, and no previous
\* event was loaded or _ask_is_same_chase returned false; with no finding,
\* a finding not live, or a duplicate, no alert is sent and the file is not
\* written for that URL.
C1_AlertOnlyWhenGated ==
    /\ [][(file' /= file \/ (cur'.alerted /\ ~cur.alerted) \/ (cur'.posted /\ ~cur.posted)) =>
             (pc = "alert" /\ C1_Gate)]_vars
    /\ [](/\ cur.alerted => C1_Gate
          /\ cur.dupAsked => (cur.liveAsked /\ cur.live /\ cur.last /= None)
          /\ cur.liveAsked => cur.result /= None
          /\ (pc = "next" /\ C1_Gate) => cur.alerted
          /\ cur.posted => cur.alerted)

C1_Witness ==
    /\ pc = "next"
    /\ cur.alerted /\ cur.posted
    /\ cur.last /= None /\ cur.dupAsked /\ ~cur.dup
    /\ file.state = "ok" /\ file.info /= cur.last

C4_NoPreviousNoDedup ==
    (cur.loaded \in {"absent", "damaged"}) =>
        /\ cur.last = None
        /\ ~cur.dupAsked /\ ~cur.dup /\ cur.dupOut = None
        /\ pc \in {"alert", "next"}
        /\ pc = "next" => cur.alerted

C4_Witness ==
    /\ pc = "next"
    /\ cur.loaded = "damaged"
    /\ cur.live /\ ~cur.dupAsked /\ cur.alerted

\* C5: _ask_is_live_ongoing and _ask_is_same_chase return true exactly when
\* the oracle call returned a text whose first whitespace-delimited token,
\* upper-cased, is YES; on an error of the call, an empty response (all
\* retries exhausted on empty or whitespace-only replies) or any other first
\* token they return false, and no exception reaches the scan loop.
C5_FailClosed ==
    /\ pc /= "crashed"
    /\ cur.liveAsked => (cur.live <=> SaysYES(cur.liveOut))
    /\ cur.dupAsked => (cur.dup <=> SaysYES(cur.dupOut))

C5_Witness ==
    /\ pc = "next"
    /\ cur.liveAsked /\ env.apiKey
    /\ cur.liveOut.kind = "return" /\ cur.liveOut.text = <<>>
    /\ ~cur.live /\ ~cur.alerted

\* the URLs the invocation has scanned when control is at pc
ScannedSoFar ==
    CASE pc = "start" -> 0
      [] pc = "scan" -> idx - 1
      [] pc \in {"dedup", "alert", "next", "crashed"} -> idx
      [] pc = "done" -> NumUrls

\* the steps the invocation has left at most: four per URL not yet left
\* behind, less the steps taken on the current one
StepsLeft ==
    CASE pc = "scan" -> 4 * (NumUrls - idx) + 4
      [] pc = "dedup" -> 4 * (NumUrls - idx) + 3
      [] pc = "alert" -> 4 * (NumUrls - idx) + 2
      [] pc = "next" -> 4 * (NumUrls - idx) + 1
      [] OTHER -> 0

\* C6: in one invocation every URL of the list is scanned exactly once, in
\* list order, and the run terminates: a fetch failure, an HTTP status >= 400,
\* an oracle failure in the live or the dedup classification, an alert-webhook
\* failure or a state/log write failure on one URL never keeps a later URL
\* from being processed. No step raises out of the loop, the loop always has
\* its next step until the list is done, and every step leaves fewer to take.
C6_EveryUrlOnce ==
    /\ [](/\ pc /= "crashed"
          /\ hist.scanned = [i \in 1..ScannedSoFar |-> i]
          /\ pc \in {"scan", "dedup", "alert", "next"} => ENABLED (Scan \/ Dedup \/ Alert \/ NextUrl))
    /\ [][(pc \in {"scan", "dedup", "alert", "next"}) =>
             (run' = run /\ StepsLeft' < StepsLeft /\ (StepsLeft' = 0 <=> pc' = "done"))]_vars

\* the write of the state file failed on an earlier URL of the run, and the
\* last URL was scanned and its live classification failed
C6_Witness ==
    /\ pc = "next"
    /\ run = 1 /\ idx = NumUrls
    /\ hist.scanned = [i \in 1..NumUrls |-> i]
    /\ file.state = "damaged"
    /\ cur.liveAsked /\ cur.liveOut.kind = "raise" /\ cur.liveOut.error = "Exception"

\* C7: when GEMINI_API_KEY is absent the program fails at startup, before any
\* page is fetched and before any alert decision is made; when only the
\* webhook URL is absent the run proceeds and only that channel is disabled.
C7_MissingKeyIsFatal ==
    /\ (run >= 1 /\ ~env.apiKey) => (hist.scanned = <<>> /\ ~cur.liveAsked)
    /\ (run >= 1 /\ ~env.webhook) => ~cur.posted

(***************************************************************************)
(* Harness of best_sentence_snippet: blocks as the text extractor makes    *)
(* them, words separated by single spaces, some of them long               *)
(***************************************************************************)
\* the number of pieces a block of the harness is made of, at most
MaxPieces == 3

Rep(c, n) == [i \in 1..n |-> c]

\* a sentence that scores, "Pursuit.", and one that does not, "Crash."
X_sentence == <<"P">> \o Tail(L_pursuit) \o <<".">>

X_stop == X_plain \o <<".">>

ShortPieces == {X_plain, X_stop, X_sentence, X_noncore}

\* words without whitespace: half the limit, exactly the limit, one more
W_half == Rep("x", SNIPPET_MAX \div 2)

W_full == Rep("x", SNIPPET_MAX)

W_over == Rep("x", SNIPPET_MAX + 1)

LongPieces == {W_full, W_over, W_half \o SP \o W_half}

AtMostOne(S) == {<<>>} \cup {<<x>> : x \in S}

\* short blocks of up to MaxPieces pieces, and blocks with a long piece
SnippetBlocks ==
    {join(SP, q) : q \in SeqsUpTo(ShortPieces, MaxPieces)}
      \cup {join(SP, q \o <<w>> \o r) : q \in AtMostOne(ShortPieces), w \in LongPieces, r \in AtMostOne(ShortPieces)}

SnippetHarness ==
    /\ pc = "start"
    /\ \E b \in SnippetBlocks :
          /\ page' = [kind |-> "block", text |-> b]
          /\ cur' = [NoCur EXCEPT !.result = best_sentence_snippet(b)]
    /\ pc' = "snipped"
    /\ UNCHANGED <<run, env, idx, file, cache, ask, askOut, hist>>

NextSnippet == SnippetHarness

SpecSnippet == Init /\ [][NextSnippet]_vars

(***************************************************************************)
(* Claim about best_sentence_snippet                                       *)
(***************************************************************************)
\* the excerpt before truncation: the best sentence of the block with one
\* neighbour on each side
Excerpt(block_text) ==
    LET sentences == split_into_sentences(block_text)
    IN  IF sentences = <<>> THEN <<>>
        ELSE snippetText(sentences, bestFrom(sentences, 1, 1, 0).idx)

\* snippet is the first k characters of the excerpt followed by the marker
CutAt(snippet, excerpt, k) == snippet = SubSeq(excerpt, 1, k) \o ELLIPSIS

\* C11: the snippet of every block is at most 700 characters long plus the
\* ellipsis marker; an excerpt of at most 700 characters is returned whole,
\* and a longer one is cut where a whitespace character follows, never inside
\* a word, also when its first 700 characters hold no whitespace.
C11_SnippetCutAtWhitespace ==
    pc = "snipped" =>
        LET excerpt == Excerpt(page.text)
            snippet == cur.result.snippet
        IN  /\ Len(snippet) <= SNIPPET_MAX + Len(ELLIPSIS)
            /\ Len(excerpt) <= SNIPPET_MAX => snippet = excerpt
            /\ Len(excerpt) > SNIPPET_MAX =>
                  \E k \in 0..SNIPPET_MAX :
                      /\ CutAt(snippet, excerpt, k)
                      /\ excerpt[k + 1] \in WS

(***************************************************************************)
(* Harness of extract_text_blocks: the small pages of the scanner harness  *)
(* and pages of about MAX_BLOCKS numbered headings, some of them repeated  *)
(***************************************************************************)
Digits == <<"0", "1", "2", "3", "4", "5", "6", "7", "8", "9">>

\* the heading text "No.ddd" for a number below 1000
Numbered(n) == <<"N", "o", ".", Digits[(n \div 100) + 1], Digits[((n \div 10) % 10) + 1], Digits[(n % 10) + 1]>>

Elem(tag, inner) == [tag |-> tag, href |-> H_none, inner |-> inner]

\* an anchor, then n headings numbered cyclically with k numbers, then a
\* paragraph and an anchor with the text of the first anchor
BigPage(n, k) ==
    <<Elem("a", X_noncore)>> \o [i \in 1..n |-> Elem("h1", Numbered((i - 1) % k))]
      \o <<Elem("p", X_noncore), Elem("a", X_noncore)>>

BigSizes == {MAX_BLOCKS - 2, MAX_BLOCKS - 1, MAX_BLOCKS, MAX_BLOCKS + 1}

BigPages == {BigPage(n, k) : n \in BigSizes, k \in BigSizes \cup {MAX_BLOCKS \div 2}}

ExtractInputs == SeqsUpTo(HarnessElems, MaxElems) \cup BigPages

ExtractHarness ==
    /\ pc = "start"
    /\ \E elems \in ExtractInputs :
          /\ page' = OkResp(elems)
          /\ cur' = [NoCur EXCEPT !.result = extract_text_blocks(elems)]
    /\ pc' = "extracted"
    /\ UNCHANGED <<run, env, idx, file, cache, ask, askOut, hist>>

NextExtract == ExtractHarness

SpecExtract == Init /\ [][NextExtract]_vars

(***************************************************************************)
(* Claim about extract_text_blocks                                         *)
(***************************************************************************)
\* the position of the first appearance of a block in a sequence of blocks
FirstAt(blocks, b) == CHOOSE i \in 1..Len(blocks) : blocks[i] = b /\ \A j \in 1..(i - 1) : blocks[j] /= b

Range(blocks) == {blocks[i] : i \in 1..Len(blocks)}

\* out holds no block twice, holds blocks of cat only, in the order of their
\* first appearance in cat, and no block left out appears in cat before the
\* last block of out
FirstOfEach(out, cat) ==
    /\ \A i \in 1..Len(out) : \A j \in 1..(i - 1) : out[j] /= out[i]
    /\ \A i \in 1..Len(out) : out[i] \in Range(cat)
    /\ \A i \in 1..(Len(out) - 1) : FirstAt(cat, out[i]) < FirstAt(cat, out[i + 1])
    /\ \A b \in Range(cat) \ Range(out) : Len(out) > 0 /\ FirstAt(cat, b) > FirstAt(cat, out[Len(out)])

\* C12: the list extract_text_blocks returns holds no two equal strings, keeps
\* the blocks in the order of their first appearance in the concatenation of
\* the heading/paragraph/list-item blocks and the anchor blocks, has at most
\* 600 entries, and these are the first 600 of the deduplicated list.
C12_UniqueOrderedCapped ==
    pc = "extracted" =>
        LET cat == concatenated(_strip_scripts_and_styles(page.elems))
        IN  /\ FirstOfEach(cur.result, cat)
            /\ Len(cur.result) = min(MAX_BLOCKS, Cardinality(Range(cat)))

\* a page with more than 600 different blocks, some of them repeated, was
\* extracted, and 600 blocks came out
C12_Witness ==
    /\ pc = "extracted"
    /\ Cardinality(Range(concatenated(_strip_scripts_and_styles(page.elems)))) > MAX_BLOCKS
    /\ Len(concatenated(_strip_scripts_and_styles(page.elems))) > Cardinality(Range(concatenated(_strip_scripts_and_styles(page.elems))))
    /\ Len(cur.result) = MAX_BLOCKS

(***************************************************************************)
(* index.py: two invocations of the program at the same time               *)
(*                                                                         *)
(* Each invocation has its own position, URL index and locals; the         *)
(* last-chase file and the oracle cache are the files both use, read and   *)
(* written with no lock.  The site of the first URL serves both            *)
(* invocations the page that headlines the live pursuit, the other sites   *)
(* serve nothing.  An invocation reads the clock as the number of          *)
(* invocations started so far.                                             *)
(***************************************************************************)
Invocations == {"A", "B"}

Served(i) == IF i = 1 THEN {OkResp(PageA)} ELSE {r \in SiteResps : r.kind = "error" \/ r.status >= 400}

\* a chase other than the one the page headlines, as an earlier invocation saved it
OtherChase == saved_info(X_noncore, [text |-> X_noncore, url |-> news[1]], news[1], 0)

\* history of one invocation: after - the other invocation had ended when this
\* one started; live - the live classifier confirmed the finding; loaded,
\* savesAtLoad - it loaded the last chase, after so many saves of either
\* invocation; asked, dup - the deduplication prompt it sent and the answer;
\* alerted, posted, save - it sent the alert, the post went out, how the save ended
NoPart ==
    [after |-> FALSE, live |-> FALSE, loaded |-> FALSE, savesAtLoad |-> 0, asked |-> None,
     dup |-> FALSE, alerted |-> FALSE, posted |-> FALSE, save |-> ""]

InitRace ==
    /\ pc = [p \in Invocations |-> "start"]
    /\ run = 0
    /\ env = [apiKey |-> TRUE, webhook |-> TRUE]
    /\ idx = [p \in Invocations |-> 0]
    /\ cur = [p \in Invocations |-> NoCur]
    /\ file \in {[state |-> "absent", info |-> None], [state |-> "ok", info |-> OtherChase]}
    /\ cache = <<>>
    /\ ask = NoCall
    /\ askOut = NoOut
    /\ page = None
    /\ hist = [initial |-> file, saves |-> 0, part |-> [p \in Invocations |-> NoPart]]

RaceStart(p) ==
    /\ pc[p] = "start"
    /\ run' = run + 1
    /\ pc' = [pc EXCEPT ![p] = "scan"]
    /\ idx' = [idx EXCEPT ![p] = 1]
    /\ hist' = [hist EXCEPT !.part[p].after = \A q \in Invocations \ {p} : pc[q] = "done"]
    /\ UNCHANGED <<env, cur, file, cache, ask, askOut, page>>

\* index.py:410
RaceClassified(p, f, res, g) ==
    /\ cache' = res.cache
    /\ cur' = [cur EXCEPT ![p] = [NoCur EXCEPT !.result = f.result, !.title = f.title, !.href = f.href,
                                               !.found = f.live_link, !.liveAsked = TRUE,
                                               !.liveOut = res.out, !.live = g.value]]
    /\ hist' = [hist EXCEPT !.part[p].live = g.value]
    /\ pc' = [pc EXCEPT ![p] = IF g.raised THEN "crashed" ELSE IF g.value THEN "dedup" ELSE "next"]

\* index.py:396-410
RaceScan(p) ==
    /\ pc[p] = "scan"
    /\ \E resp \in Served(idx[p]) :
          IF FACTS[idx[p]][resp].result = None \/ FACTS[idx[p]][resp].title = <<>>
            THEN /\ cur' = [cur EXCEPT ![p] = NoCur]
                 /\ pc' = [pc EXCEPT ![p] = "next"]
                 /\ UNCHANGED <<cache, hist>>
            ELSE \E res \in Calls(ask_gemini(cache, env.apiKey, LivePrompt(FACTS[idx[p]][resp].title), DEFAULT_MODEL, DEFAULT_MAX_RETRIES)) :
                    RaceClassified(p, FACTS[idx[p]][resp], res, gateway(res.out))
    /\ UNCHANGED <<run, env, idx, file, ask, askOut, page>>

\* index.py:424-426
RaceCompared(p, base, prompt, res, g) ==
    /\ cache' = forget(res.cache, _cache_key([prompt |-> prompt, model |-> DEFAULT_MODEL]))
    /\ cur' = [cur EXCEPT ![p] = [base EXCEPT !.dupAsked = TRUE, !.dupOut = res.out, !.dup = g.value]]
    /\ hist' = [hist EXCEPT !.part[p] = [@ EXCEPT !.loaded = TRUE, !.savesAtLoad = hist.saves,
                                                  !.asked = prompt, !.dup = g.value]]
    /\ pc' = [pc EXCEPT ![p] = IF g.raised THEN "crashed" ELSE IF g.value THEN "next" ELSE "alert"]

RaceLoaded(p, last) == [cur[p] EXCEPT !.live_link = cur[p].found, !.last = last, !.loaded = file.state]

\* index.py:411-426: the load of the last chase and the question to the
\* deduplication classifier; nothing but the load reads the file
RaceDedup(p) ==
    /\ pc[p] = "dedup"
    /\ IF _load_last_chase(file) = None
         THEN /\ cur' = [cur EXCEPT ![p] = RaceLoaded(p, None)]
              /\ pc' = [pc EXCEPT ![p] = "alert"]
              /\ hist' = [hist EXCEPT !.part[p] = [@ EXCEPT !.loaded = TRUE, !.savesAtLoad = hist.saves]]
              /\ cache' = cache
         ELSE \E res \in Calls(ask_gemini(cache, env.apiKey,
                                          SamePrompt(_load_last_chase(file), current_obj(cur[p].title, cur[p].result, cur[p].found, Now)),
                                          DEFAULT_MODEL, DEFAULT_MAX_RETRIES)) :
                 RaceCompared(p, RaceLoaded(p, _load_last_chase(file)),
                              SamePrompt(_load_last_chase(file), current_obj(cur[p].title, cur[p].result, cur[p].found, Now)),
                              res, gateway(res.out))
    /\ UNCHANGED <<run, env, idx, file, ask, askOut, page>>

\* index.py:428-439: the alert and the save; nothing but the save writes the file
RaceAlert(p) ==
    /\ pc[p] = "alert"
    /\ \E posted \in BOOLEAN, w \in SaveOutcomes :
          /\ file' = _save_last_chase(file, saved_info(cur[p].title, cur[p].result, cur[p].live_link, Now), w)
          /\ hist' = [hist EXCEPT !.saves = @ + 1,
                                  !.part[p] = [@ EXCEPT !.alerted = TRUE, !.posted = env.webhook /\ posted, !.save = w]]
          /\ cur' = [cur EXCEPT ![p] = [@ EXCEPT !.alerted = TRUE, !.posted = env.webhook /\ posted]]
    /\ pc' = [pc EXCEPT ![p] = "next"]
    /\ UNCHANGED <<run, env, idx, cache, ask, askOut, page>>

\* index.py:395
RaceNextUrl(p) ==
    /\ pc[p] = "next"
    /\ idx' = [idx EXCEPT ![p] = @ + 1]
    /\ pc' = [pc EXCEPT ![p] = IF idx[p] + 1 > NumUrls THEN "done" ELSE "scan"]
    /\ cur' = [cur EXCEPT ![p] = NoCur]
    /\ UNCHANGED <<run, env, file, cache, ask, askOut, page, hist>>

NextRace == \E p \in Invocations : RaceStart(p) \/ RaceScan(p) \/ RaceDedup(p) \/ RaceAlert(p) \/ RaceNextUrl(p)

SpecRace == InitRace /\ [][NextRace]_vars

(***************************************************************************)
(* Claim about two invocations                                             *)
(***************************************************************************)
RaceOver == \A p \in Invocations : pc[p] = "done"

Alerted == {p \in Invocations : hist.part[p].alerted}

BothLive == \A p \in Invocations : hist.part[p].live

\* both invocations loaded the last chase before either saved it
BothLoadedBeforeSaves == \A p \in Invocations : hist.part[p].loaded /\ hist.part[p].savesAtLoad = 0

OneAfterTheOther == \E p \in Invocations : hist.part[p].after

\* asked to compare an event with itself, the deduplication oracle said YES
SelfYes(part) == (part.asked /= None /\ EventOf(part.asked.prev) = EventOf(part.asked.curr)) => part.dup

\* both invocations ended having loaded the last chase before either saved
\* it, the finding confirmed live, and none told that it is the chase stored
\* at the start: then both sent the alert
RaceBothAlert ==
    (RaceOver /\ BothLive /\ BothLoadedBeforeSaves /\ \A p \in Invocations : ~hist.part[p].dup)
        => Alerted = Invocations

FirstSaved == \A p \in Invocations : (hist.part[p].alerted /\ ~hist.part[p].after) => hist.part[p].save = "ok"

====
